---- MODULE Spec2Model ----
(***************************************************************************)
(* Model of scripts/generate_agenda.py: the AgendaGenerator fetch          *)
(* operations, the cross-repository aggregation of generate_agenda and the *)
(* attention table of _render_template.                                    *)
(*                                                                         *)
(* Time is counted in hours since an epoch; a value of type datetime is an *)
(* integer >= 0 and Python's None is the integer None.  An API response is *)
(* a sequence of items; an item carries the fields the code reads.  Titles *)
(* and URLs are display text that no branch of the code depends on and are *)
(* left out of the records.                                                *)
(*                                                                         *)
(* An error raised inside an operation is an input of the operation: the   *)
(* position errAt of the item whose processing raises (0: the API call     *)
(* itself raises, before any item is seen; NoErr: nothing raises).         *)
(***************************************************************************)
EXTENDS Integers, Sequences, FiniteSets, TLC

VARIABLES
    pc,              \* position of the caller
    lookback_date,   \* AgendaGenerator.lookback_date
    op,              \* harness: the operation that was called
    arg,             \* harness: its inputs (API responses, error point)
    result,          \* harness: what it returned
    caught,          \* harness: whether its try/except caught an exception
    world,           \* run: what each repository holds on the hosting platform
    meeting_date,    \* run: the --meeting-date argument
    repo_i,          \* run: index into CONFIG["repos"] or top_repos of the loop at pc
    all_merged_prs, all_open_prs, all_help_wanted, all_contributors,
    repo_activity,   \* run: the dict in insertion order, as [repo, score] entries
    top_repos,
    top_issues_by_repo,
    release_info,
    next_meeting,
    agenda,          \* run: the rendered document, once written
    calls            \* run: the fetch operations called so far, in order

harnessVars == <<op, arg, result, caught>>

runVars == <<world, meeting_date, repo_i, all_merged_prs, all_open_prs, all_help_wanted,
             all_contributors, repo_activity, top_repos, top_issues_by_repo,
             release_info, next_meeting, agenda, calls>>

vars == <<pc, lookback_date, harnessVars, runVars>>

----------------------------------------------------------------------------
(* Program constants *)

LookbackDays == 14
MaxPrsToShow == 8
MaxIssuesToShow == 5
MergedScanLimit == 50
OpenScanLimit == 30
MinDaysOpen == 3
ContributorScanLimit == 30
ActivityPullLimit == 30
ActivityIssueLimit == 30
DiscussionScanLimit == 20
DiscussionRecentDays == 30
DiscussionLimit == 2
HoursPerDay == 24
AttentionOpenScan == 3
AttentionMergedScan == 2
AttentionHelpScan == 2
AttentionCap == 5
StaleDays == 7
CriticalDays == 14
NextMeetingDays == 14
TopRepoCount == 3

Repos ==
    <<"kubestellar/kubestellar", "kubestellar/kubeflex", "kubestellar/ocm-status-addon",
      "kubestellar/docs", "kubestellar/ui">>

LabelAliases == <<"help wanted", "good first issue", "help-wanted", "good-first-issue">>

None == 0 - 1
NoErr == 0 - 1

(* Bounds of the model *)
MaxLen == 2          \* items of a response that follow its padding
MaxExtra == 1        \* displayed items beyond those the attention table reads
MaxWorld == 2        \* largest repository of a run: its count of items of each sort

\* datetime.now(): the run happens 40 days after the epoch
Now == 40 * HoursPerDay

\* timedelta(days=n)
Days(n) == n * HoursPerDay

\* (later - earlier).days: whole days, rounded down
DaysBetween(later, earlier) == (later - earlier) \div HoursPerDay

----------------------------------------------------------------------------
(* Sequence helpers *)

Min(a, b) == IF a < b THEN a ELSE b

\* s[:n]
Take(s, n) == SubSeq(s, 1, Min(Len(s), n))

\* x in s
Contains(s, x) == \E i \in DOMAIN s : s[i] = x

Range(s) == {s[i] : i \in DOMAIN s}

Seqs(S, n) == UNION {[1..k -> S] : k \in 0..n}

----------------------------------------------------------------------------
(* Every fetch operation yields the value it returns and whether its        *)
(* try/except caught an exception on the way.                               *)

Returned(v) == [value |-> v, caught |-> FALSE]
Caught(v) == [value |-> v, caught |-> TRUE]

----------------------------------------------------------------------------
(* get_merged_prs *)

MergedPRInfo(pr) ==
    [number |-> pr.number, author |-> pr.author, merged_at |-> pr.merged_at,
     created_at |-> None, labels |-> pr.labels, days_open |-> 0]

\* mutant: a filter over the whole page, without the early exit
RECURSIVE MergedScanNoBreak(_, _, _, _)
MergedScanNoBreak(items, i, errAt, prs) ==
    IF i > Len(items) THEN Returned(prs)
    ELSE IF i = errAt THEN Caught(prs)
    ELSE MergedScanNoBreak(items, i + 1, errAt,
                           IF items[i].merged_at # None /\ items[i].merged_at > lookback_date
                           THEN Append(prs, MergedPRInfo(items[i]))
                           ELSE prs)

RECURSIVE MergedScan(_, _, _, _)
MergedScan(items, i, errAt, prs) ==
    IF i > Len(items) THEN Returned(prs)
    ELSE IF i = errAt THEN Caught(prs)
    ELSE LET pr == items[i] IN
         IF pr.merged_at # None /\ pr.merged_at > lookback_date
         THEN MergedScan(items, i + 1, errAt, Append(prs, MergedPRInfo(pr)))
         ELSE IF pr.updated_at < lookback_date
         THEN Returned(prs)
         ELSE MergedScan(items, i + 1, errAt, prs)

\* mutant: the handler discards what the scan had gathered
get_merged_prs_discarding(closed, errAt) ==
    LET scan == MergedScan(Take(closed, MergedScanLimit), 1, errAt, <<>>)
    IN  IF errAt = 0 \/ scan.caught THEN Caught(<<>>) ELSE scan

get_merged_prs(closed, errAt) ==
    IF errAt = 0 THEN Caught(<<>>)
    ELSE MergedScan(Take(closed, MergedScanLimit), 1, errAt, <<>>)

----------------------------------------------------------------------------
(* get_open_prs_needing_review *)

OpenPRInfo(pr, days_open) ==
    [number |-> pr.number, author |-> pr.author, merged_at |-> None,
     created_at |-> pr.created_at, labels |-> pr.labels, days_open |-> days_open]

RECURSIVE OpenScan(_, _, _, _)
OpenScan(items, i, errAt, prs) ==
    IF i > Len(items) THEN Returned(prs)
    ELSE IF i = errAt THEN Caught(prs)
    ELSE LET pr == items[i]
             days_open == DaysBetween(Now, pr.created_at)
         IN  OpenScan(items, i + 1, errAt,
                      IF days_open >= MinDaysOpen
                      THEN Append(prs, OpenPRInfo(pr, days_open))
                      ELSE prs)

\* sorted(prs, key=days_open, reverse=True): stable, equal keys keep their order
RECURSIVE InsertByDaysOpen(_, _)
InsertByDaysOpen(sorted, x) ==
    IF sorted = <<>> THEN <<x>>
    ELSE IF Head(sorted).days_open >= x.days_open
    THEN <<Head(sorted)>> \o InsertByDaysOpen(Tail(sorted), x)
    ELSE <<x>> \o sorted

RECURSIVE SortByDaysOpen(_)
SortByDaysOpen(prs) ==
    IF prs = <<>> THEN <<>>
    ELSE InsertByDaysOpen(SortByDaysOpen(SubSeq(prs, 1, Len(prs) - 1)), prs[Len(prs)])

\* mutant: the list is returned in scan order
get_open_prs_unsorted(open, errAt) ==
    IF errAt = 0 THEN Caught(<<>>)
    ELSE OpenScan(Take(open, OpenScanLimit), 1, errAt, <<>>)

get_open_prs_needing_review(open, errAt) ==
    LET scan == IF errAt = 0 THEN Caught(<<>>)
                ELSE OpenScan(Take(open, OpenScanLimit), 1, errAt, <<>>)
    IN  [value |-> SortByDaysOpen(scan.value), caught |-> scan.caught]

----------------------------------------------------------------------------
(* get_help_wanted_issues *)

IssueInfo(issue, labels) ==
    [number |-> issue.number, author |-> issue.author, labels |-> labels,
     created_at |-> issue.created_at]

\* repo.get_issues(state="open", labels=[label_name]): the open items carrying it
IssuesWithLabel(items, label_name) ==
    LET Has(it) == Contains(it.labels, label_name) IN SelectSeq(items, Has)

\* mutant: an issue already listed under an earlier alias is not listed again
RECURSIVE HelpLabelScanDedup(_, _, _, _)
HelpLabelScanDedup(labelled, i, errAt, issues) ==
    IF i > Len(labelled) THEN Returned(issues)
    ELSE IF i = errAt THEN Caught(issues)
    ELSE HelpLabelScanDedup(labelled, i + 1, errAt,
                            IF ~labelled[i].is_pr
                               /\ \A k \in DOMAIN issues : issues[k].number # labelled[i].number
                            THEN Append(issues, IssueInfo(labelled[i], labelled[i].labels))
                            ELSE issues)

RECURSIVE HelpLabelScan(_, _, _, _)
HelpLabelScan(labelled, i, errAt, issues) ==
    IF i > Len(labelled) THEN Returned(issues)
    ELSE IF i = errAt THEN Caught(issues)
    ELSE LET issue == labelled[i] IN
         HelpLabelScan(labelled, i + 1, errAt,
                       IF ~issue.is_pr
                       THEN Append(issues, IssueInfo(issue, issue.labels))
                       ELSE issues)

\* fail = [label |-> l, at |-> j]: the query of alias l raises at its item j
\* (j = 0: the query itself raises); label 0 is the repository lookup, which
\* precedes every query.  The inner except passes and the next alias is queried.
RECURSIVE HelpLabels(_, _, _, _)
HelpLabels(items, l, fail, acc) ==
    IF l > Len(LabelAliases) THEN acc
    ELSE LET one == IF fail.label = l /\ fail.at = 0 THEN Caught(acc.value)
                    ELSE HelpLabelScan(IssuesWithLabel(items, LabelAliases[l]), 1,
                                       IF fail.label = l THEN fail.at ELSE NoErr,
                                       acc.value)
         IN  HelpLabels(items, l + 1, fail,
                        [value |-> one.value, caught |-> acc.caught \/ one.caught])

get_help_wanted_issues(items, fail) ==
    IF fail.label = 0 THEN Caught(<<>>)
    ELSE HelpLabels(items, 1, fail, Returned(<<>>))

----------------------------------------------------------------------------
(* get_recent_contributors *)

RECURSIVE ContributorScan(_, _, _, _)
ContributorScan(items, i, errAt, contributors) ==
    IF i > Len(items) THEN Returned(contributors)
    ELSE IF i = errAt THEN Caught(contributors)
    ELSE LET pr == items[i] IN
         ContributorScan(items, i + 1, errAt,
                         IF pr.merged_at # None /\ pr.merged_at > lookback_date
                         THEN contributors \cup {pr.author}
                         ELSE contributors)

get_recent_contributors(closed, errAt) ==
    IF errAt = 0 THEN Caught({})
    ELSE ContributorScan(Take(closed, ContributorScanLimit), 1, errAt, {})

----------------------------------------------------------------------------
(* get_repo_activity_score *)

\* mutant: the pull-request scan exits as the issue scan does, only on an item
\* updated before the anchor
RECURSIVE ActivityPullScanStrict(_, _, _, _)
ActivityPullScanStrict(items, i, errAt, score) ==
    IF i > Len(items) THEN Returned(score)
    ELSE IF i = errAt THEN Caught(score)
    ELSE IF items[i].updated_at > lookback_date
    THEN ActivityPullScanStrict(items, i + 1, errAt, score + 1)
    ELSE IF items[i].updated_at < lookback_date
    THEN Returned(score)
    ELSE ActivityPullScanStrict(items, i + 1, errAt, score)

RECURSIVE ActivityPullScan(_, _, _, _)
ActivityPullScan(items, i, errAt, score) ==
    IF i > Len(items) THEN Returned(score)
    ELSE IF i = errAt THEN Caught(score)
    ELSE IF items[i].updated_at > lookback_date
    THEN ActivityPullScan(items, i + 1, errAt, score + 1)
    ELSE Returned(score)

RECURSIVE ActivityIssueScan(_, _, _, _)
ActivityIssueScan(items, i, errAt, score) ==
    IF i > Len(items) THEN Returned(score)
    ELSE IF i = errAt THEN Caught(score)
    ELSE LET issue == items[i] IN
         IF ~issue.is_pr /\ issue.updated_at > lookback_date
         THEN ActivityIssueScan(items, i + 1, errAt, score + 1)
         ELSE IF issue.updated_at < lookback_date
         THEN Returned(score)
         ELSE ActivityIssueScan(items, i + 1, errAt, score)

\* fail = [list |-> 1 or 2, at |-> j]: the pull (1) or issue (2) scan raises at
\* its item j (j = 0: the listing call itself raises)
get_repo_activity_score(pulls, issues, fail) ==
    IF fail.list = 1 /\ fail.at = 0 THEN Caught(0)
    ELSE LET p == ActivityPullScan(Take(pulls, ActivityPullLimit), 1,
                                   IF fail.list = 1 THEN fail.at ELSE NoErr, 0)
         IN  IF p.caught THEN p
             ELSE IF fail.list = 2 /\ fail.at = 0 THEN Caught(p.value)
             ELSE ActivityIssueScan(Take(issues, ActivityIssueLimit), 1,
                                    IF fail.list = 2 THEN fail.at ELSE NoErr,
                                    p.value)

----------------------------------------------------------------------------
(* get_top_issues_for_discussion *)

RECURSIVE DiscussionScan(_, _, _, _, _)
DiscussionScan(items, i, errAt, limit, issues) ==
    IF i > Len(items) THEN Returned(issues)
    ELSE IF i = errAt THEN Caught(issues)
    ELSE LET issue == items[i] IN
         IF issue.is_pr THEN DiscussionScan(items, i + 1, errAt, limit, issues)
         ELSE LET days_since_update == DaysBetween(Now, issue.updated_at)
                  kept == IF days_since_update <= DiscussionRecentDays
                          THEN Append(issues, IssueInfo(issue, Take(issue.labels, 3)))
                          ELSE issues
              IN  IF Len(kept) >= limit THEN Returned(kept)
                  ELSE DiscussionScan(items, i + 1, errAt, limit, kept)

get_top_issues_for_discussion(open_issues, limit, errAt) ==
    LET scan == IF errAt = 0 THEN Caught(<<>>)
                ELSE DiscussionScan(Take(open_issues, DiscussionScanLimit), 1,
                                    errAt, limit, <<>>)
    IN  [value |-> Take(scan.value, limit), caught |-> scan.caught]

----------------------------------------------------------------------------
(* get_release_info *)

UnknownRelease == [version |-> "Unknown", url |-> "#", date |-> "N/A"]

\* published_at.strftime("%Y-%m-%d"): the calendar day of the timestamp
FormatDate(t) == "day " \o ToString(t \div HoursPerDay)

\* errAt = 0: listing the releases raises; errAt = 1: reading the latest one does
get_release_info(releases, errAt) ==
    IF errAt = 0 THEN Caught(UnknownRelease)
    ELSE IF releases # <<>>
    THEN IF errAt = 1 THEN Caught(UnknownRelease)
         ELSE LET latest == releases[1] IN
              Returned([version |-> latest.tag_name,
                        url |-> latest.html_url,
                        date |-> IF latest.published_at # None
                                 THEN FormatDate(latest.published_at) ELSE "N/A"])
    ELSE Returned(UnknownRelease)

----------------------------------------------------------------------------
(* _render_template *)

\* a row of the attention table: the item, why it needs attention, its owner
Row(kind, number, urgency, days_open, owner) ==
    [kind |-> kind, number |-> number, urgency |-> urgency,
     days_open |-> days_open, owner |-> owner]

AllClearRow == Row("all_clear", 0, "ok", 0, "-")

\* mutant: the fourteenth day still counts as the lower tier
UrgencyLate(days_open) == IF days_open <= CriticalDays THEN "orange" ELSE "red"

Urgency(days_open) == IF days_open < CriticalDays THEN "orange" ELSE "red"

RECURSIVE StaleRowsOf(_)
StaleRowsOf(prs) ==
    IF prs = <<>> THEN <<>>
    ELSE LET pr == Head(prs) IN
         (IF pr.days_open >= StaleDays
          THEN <<Row("stale_pr", pr.number, Urgency(pr.days_open), pr.days_open, pr.author)>>
          ELSE <<>>) \o StaleRowsOf(Tail(prs))

\* mutant: every displayed open pull request is considered
StaleRowsUncut(open_prs) == StaleRowsOf(open_prs)

StaleRows(open_prs) == StaleRowsOf(Take(open_prs, AttentionOpenScan))

IsBreaking(pr) ==
    \E k \in DOMAIN pr.labels : pr.labels[k] \in {"breaking-change", "major"}

RECURSIVE BreakingRowsOf(_)
BreakingRowsOf(prs) ==
    IF prs = <<>> THEN <<>>
    ELSE LET pr == Head(prs) IN
         (IF IsBreaking(pr)
          THEN <<Row("breaking_change", pr.number, "alarm", 0, pr.author)>>
          ELSE <<>>) \o BreakingRowsOf(Tail(prs))

BreakingRows(merged_prs) == BreakingRowsOf(Take(merged_prs, AttentionMergedScan))

HelpRows(help_wanted) ==
    LET shown == Take(help_wanted, AttentionHelpScan) IN
    [k \in DOMAIN shown |-> Row("help_wanted", shown[k].number, "help", 0, "-")]

AttentionTable(open_prs, merged_prs, help_wanted) ==
    LET attention_items ==
            StaleRows(open_prs) \o BreakingRows(merged_prs) \o HelpRows(help_wanted)
    IN  IF attention_items # <<>> THEN Take(attention_items, AttentionCap)
        ELSE <<AllClearRow>>

\* the top_issues_by_repo argument is a dict in insertion order: a sequence
\* of [repo, issues]; a repository without issues gets no heading
DiscussionSection(top_issues) ==
    LET HasIssues(entry) == entry.issues # <<>>
        shown == SelectSeq(top_issues, HasIssues)
    IN  IF shown # <<>>
        THEN [k \in DOMAIN shown |->
                [repo |-> shown[k].repo,
                 issues |-> [j \in DOMAIN shown[k].issues |->
                               [number |-> shown[k].issues[j].number,
                                labels |-> Take(shown[k].issues[j].labels, 2)]]]]
        ELSE <<[repo |-> "none", issues |-> <<>>]>>

render_template(date, merged_prs, open_prs, help_wanted, contributors, release, next, top_issues) ==
    [meeting_date |-> date,
     merged_count |-> Len(merged_prs),
     review_count |-> Len(open_prs),
     help_count |-> Len(help_wanted),
     attention_table |-> AttentionTable(open_prs, merged_prs, help_wanted),
     discussion_section |-> DiscussionSection(top_issues),
     release_info |-> release,
     next_meeting |-> next]

----------------------------------------------------------------------------
(* generate_agenda: the pieces between the fetches *)

\* x.merged_at or datetime.min
DatetimeMin == 0 - 1
MergedKey(pr) == IF pr.merged_at # None THEN pr.merged_at ELSE DatetimeMin

\* all_merged_prs.sort(key=merged_at, reverse=True): stable
RECURSIVE InsertByMergedAt(_, _)
InsertByMergedAt(sorted, x) ==
    IF sorted = <<>> THEN <<x>>
    ELSE IF MergedKey(Head(sorted)) >= MergedKey(x)
    THEN <<Head(sorted)>> \o InsertByMergedAt(Tail(sorted), x)
    ELSE <<x>> \o sorted

RECURSIVE SortByMergedAt(_)
SortByMergedAt(prs) ==
    IF prs = <<>> THEN <<>>
    ELSE InsertByMergedAt(SortByMergedAt(SubSeq(prs, 1, Len(prs) - 1)), prs[Len(prs)])

\* mutant: the pooled open pull requests are sorted again before the cut
LimitOpenPrsResorted(open_prs) == Take(SortByDaysOpen(open_prs), MaxPrsToShow)

\* all_open_prs[:CONFIG["max_prs_to_show"]]
LimitOpenPrs(open_prs) == Take(open_prs, MaxPrsToShow)

\* sorted(repo_activity.items(), key=score, reverse=True): stable
RECURSIVE InsertByScore(_, _)
InsertByScore(sorted, x) ==
    IF sorted = <<>> THEN <<x>>
    ELSE IF Head(sorted).score >= x.score
    THEN <<Head(sorted)>> \o InsertByScore(Tail(sorted), x)
    ELSE <<x>> \o sorted

RECURSIVE SortByScore(_)
SortByScore(entries) ==
    IF entries = <<>> THEN <<>>
    ELSE InsertByScore(SortByScore(SubSeq(entries, 1, Len(entries) - 1)),
                       entries[Len(entries)])

\* mutant: the three most active repositories, whatever their score
TopReposUnfiltered(activity) ==
    LET sorted_repos == Take(SortByScore(activity), TopRepoCount)
    IN  [k \in DOMAIN sorted_repos |-> sorted_repos[k].repo]

\* [repo for repo, score in sorted_repos[:3] if score > 0]
TopRepos(activity) ==
    LET Active(entry) == entry.score > 0
        kept == SelectSeq(Take(SortByScore(activity), TopRepoCount), Active)
    IN  [k \in DOMAIN kept |-> kept[k].repo]

\* date_parser.parse(meeting_date): the dates the model knows, ParseError otherwise
ParseError == <<>>

ParseDate(text) ==
    CASE text = "2026-01-08" -> [year |-> 2026, month |-> 1, day |-> 8]
      [] text = "2026-12-25" -> [year |-> 2026, month |-> 12, day |-> 25]
      [] OTHER -> ParseError

DaysInMonth(year, month) ==
    IF month = 2
    THEN (IF (year % 4 = 0 /\ year % 100 # 0) \/ year % 400 = 0 THEN 29 ELSE 28)
    ELSE IF month \in {4, 6, 9, 11} THEN 30 ELSE 31

\* meeting_dt + timedelta(days=n)
RECURSIVE AddDays(_, _)
AddDays(date, n) ==
    IF n = 0 THEN date
    ELSE IF date.day < DaysInMonth(date.year, date.month)
    THEN AddDays([date EXCEPT !.day = @ + 1], n - 1)
    ELSE IF date.month < 12
    THEN AddDays([date EXCEPT !.day = 1, !.month = @ + 1], n - 1)
    ELSE AddDays([year |-> date.year + 1, month |-> 1, day |-> 1], n - 1)

\* strftime("%m/%d/%Y")
FormatMeeting(date) == <<date.month, date.day, date.year>>

----------------------------------------------------------------------------
(* Inputs of the harness *)

\* a response: pad copies of filler, then tail; items are numbered in order
Response(pad, filler, tail) ==
    [i \in 1..(pad + Len(tail)) |->
        [number |-> i] @@ (IF i <= pad THEN filler ELSE tail[i - pad])]

\* where an error can strike: nowhere, at the API call, at an item of the tail
ErrPoints(pad, tail) == {NoErr, 0} \cup {pad + j : j \in 1..Len(tail)}

Recent == Now - Days(1)
Edge == Now - Days(LookbackDays)
Old == Now - Days(LookbackDays) - 1

\* closed pull requests; the API never reports merged_at later than updated_at
ClosedKinds ==
    { [merged_at |-> None,   updated_at |-> Old,    author |-> "alice", labels |-> <<>>],
      [merged_at |-> None,   updated_at |-> Recent, author |-> "alice", labels |-> <<>>],
      [merged_at |-> Old,    updated_at |-> Old,    author |-> "bob",   labels |-> <<>>],
      [merged_at |-> Old,    updated_at |-> Recent, author |-> "bob",   labels |-> <<>>],
      [merged_at |-> Edge,   updated_at |-> Edge,   author |-> "carol", labels |-> <<>>],
      [merged_at |-> Recent, updated_at |-> Recent, author |-> "alice", labels |-> <<"major">>],
      [merged_at |-> Recent, updated_at |-> Recent, author |-> "bob",   labels |-> <<>>] }

ClosedFiller ==
    [merged_at |-> Recent, updated_at |-> Recent, author |-> "dave", labels |-> <<>>]

OpenKinds ==
    { [created_at |-> Now - (Days(3) - 1), author |-> "alice", labels |-> <<>>],
      [created_at |-> Now - Days(3),       author |-> "bob",   labels |-> <<>>],
      [created_at |-> Now - Days(5),       author |-> "carol", labels |-> <<>>],
      [created_at |-> Now - Days(10),      author |-> "alice", labels |-> <<>>] }

OpenFiller == [created_at |-> Now - Days(4), author |-> "dave", labels |-> <<>>]

\* open issues as the label queries see them
LabelledKinds ==
    { [is_pr |-> FALSE, labels |-> <<"help wanted">>],
      [is_pr |-> FALSE, labels |-> <<"good first issue", "help wanted">>],
      [is_pr |-> FALSE, labels |-> <<"help-wanted", "bug", "good-first-issue", "help wanted">>],
      [is_pr |-> FALSE, labels |-> <<"bug">>],
      [is_pr |-> TRUE,  labels |-> <<"help wanted">>],
      [is_pr |-> TRUE,  labels |-> <<"good-first-issue", "help-wanted">>] }

LabelledItems(tail) ==
    [i \in DOMAIN tail |->
        [number |-> i, author |-> "alice", created_at |-> Recent] @@ tail[i]]

NoFail == [label |-> NoErr, at |-> NoErr]

HelpFailures(tail) ==
    {NoFail, [label |-> 0, at |-> 0]}
    \cup {[label |-> l, at |-> j] : l \in DOMAIN LabelAliases, j \in 0..Len(tail)}

\* pull requests and issues as the activity scans see them
PullKinds == { [updated_at |-> Recent], [updated_at |-> Edge], [updated_at |-> Old] }

PullFiller == [updated_at |-> Recent]

ActivityIssueKinds ==
    { [is_pr |-> FALSE, updated_at |-> Recent],
      [is_pr |-> FALSE, updated_at |-> Edge],
      [is_pr |-> FALSE, updated_at |-> Old],
      [is_pr |-> TRUE,  updated_at |-> Recent],
      [is_pr |-> TRUE,  updated_at |-> Old] }

ActivityIssueFiller == [is_pr |-> FALSE, updated_at |-> Recent]

NoScanFail == [list |-> NoErr, at |-> NoErr]

ActivityFailures(ppad, ptail, ipad, itail) ==
    {NoScanFail}
    \cup {[list |-> 1, at |-> j] : j \in ErrPoints(ppad, ptail) \ {NoErr}}
    \cup {[list |-> 2, at |-> j] : j \in ErrPoints(ipad, itail) \ {NoErr}}

\* open issues in comment order, as the discussion lookup sees them
DiscussionKinds ==
    { [is_pr |-> TRUE,  updated_at |-> Recent,                 labels |-> <<>>],
      [is_pr |-> FALSE, updated_at |-> Recent,
       labels |-> <<"bug", "ui", "docs", "help wanted">>],
      [is_pr |-> FALSE, updated_at |-> Now - (Days(31) - 1),   labels |-> <<"bug">>],
      [is_pr |-> FALSE, updated_at |-> Now - Days(31),         labels |-> <<>>] }

DiscussionFiller == [is_pr |-> TRUE, updated_at |-> Recent, labels |-> <<>>]

DiscussionItems(pad, tail) ==
    LET r == Response(pad, DiscussionFiller, tail) IN
    [i \in DOMAIN r |-> [author |-> "alice", created_at |-> Old] @@ r[i]]

ReleaseKinds ==
    { [tag_name |-> "v0.29.0", html_url |-> "releases/v0.29.0", published_at |-> Recent],
      [tag_name |-> "v0.28.0", html_url |-> "releases/v0.28.0", published_at |-> Old],
      [tag_name |-> "v0.30.0-rc1", html_url |-> "releases/v0.30.0-rc1", published_at |-> None] }

----------------------------------------------------------------------------
(* The harness: one call of one fetch operation on a fresh generator *)

Init ==
    /\ pc = "idle"
    /\ lookback_date = Now - Days(LookbackDays)
    /\ op = "none"
    /\ arg = <<>>
    /\ result = <<>>
    /\ caught = FALSE
    /\ world = <<>>
    /\ meeting_date = ""
    /\ repo_i = 0
    /\ all_merged_prs = <<>>
    /\ all_open_prs = <<>>
    /\ all_help_wanted = <<>>
    /\ all_contributors = {}
    /\ repo_activity = <<>>
    /\ top_repos = <<>>
    /\ top_issues_by_repo = <<>>
    /\ release_info = <<>>
    /\ next_meeting = <<>>
    /\ agenda = <<>>
    /\ calls = <<>>

Call(name, a, r) ==
    /\ pc' = "returned"
    /\ op' = name
    /\ arg' = a
    /\ result' = r.value
    /\ caught' = r.caught
    /\ UNCHANGED <<lookback_date, runVars>>

CallGetMergedPrs ==
    /\ pc = "idle"
    /\ \E pad \in {0, MergedScanLimit - 1}, tail \in Seqs(ClosedKinds, MaxLen) :
      \E errAt \in ErrPoints(pad, tail) :
        LET closed == Response(pad, ClosedFiller, tail) IN
        Call("get_merged_prs", [closed |-> closed, errAt |-> errAt],
             get_merged_prs(closed, errAt))

CallGetOpenPrs ==
    /\ pc = "idle"
    /\ \E pad \in {0, OpenScanLimit - 1}, tail \in Seqs(OpenKinds, MaxLen) :
      \E errAt \in ErrPoints(pad, tail) :
        LET open == Response(pad, OpenFiller, tail) IN
        Call("get_open_prs_needing_review", [open |-> open, errAt |-> errAt],
             get_open_prs_needing_review(open, errAt))

CallGetHelpWanted ==
    /\ pc = "idle"
    /\ \E tail \in Seqs(LabelledKinds, MaxLen) :
      \E fail \in HelpFailures(tail) :
        LET items == LabelledItems(tail) IN
        Call("get_help_wanted_issues", [items |-> items, fail |-> fail],
             get_help_wanted_issues(items, fail))

CallGetRecentContributors ==
    /\ pc = "idle"
    /\ \E pad \in {0, ContributorScanLimit - 1}, tail \in Seqs(ClosedKinds, MaxLen) :
      \E errAt \in ErrPoints(pad, tail) :
        LET closed == Response(pad, ClosedFiller, tail) IN
        Call("get_recent_contributors", [closed |-> closed, errAt |-> errAt],
             get_recent_contributors(closed, errAt))

CallGetRepoActivityScore ==
    /\ pc = "idle"
    /\ \E pads \in {<<0, 0>>, <<ActivityPullLimit - 1, 0>>, <<0, ActivityIssueLimit - 1>>},
       ptail \in Seqs(PullKinds, MaxLen), itail \in Seqs(ActivityIssueKinds, MaxLen) :
      \E fail \in ActivityFailures(pads[1], ptail, pads[2], itail) :
        LET pulls == Response(pads[1], PullFiller, ptail)
            issues == Response(pads[2], ActivityIssueFiller, itail)
        IN  Call("get_repo_activity_score",
                 [pulls |-> pulls, issues |-> issues, fail |-> fail],
                 get_repo_activity_score(pulls, issues, fail))

CallGetTopIssues ==
    /\ pc = "idle"
    /\ \E pad \in {0, DiscussionScanLimit - 1}, tail \in Seqs(DiscussionKinds, MaxLen) :
      \E errAt \in ErrPoints(pad, tail) :
        LET open_issues == DiscussionItems(pad, tail) IN
        Call("get_top_issues_for_discussion",
             [open_issues |-> open_issues, errAt |-> errAt],
             get_top_issues_for_discussion(open_issues, DiscussionLimit, errAt))

CallGetReleaseInfo ==
    /\ pc = "idle"
    /\ \E releases \in Seqs(ReleaseKinds, MaxLen), errAt \in {NoErr, 0, 1} :
        Call("get_release_info", [releases |-> releases, errAt |-> errAt],
             get_release_info(releases, errAt))

FetchNext ==
    \/ CallGetMergedPrs
    \/ CallGetOpenPrs
    \/ CallGetHelpWanted
    \/ CallGetRecentContributors
    \/ CallGetRepoActivityScore
    \/ CallGetTopIssues
    \/ CallGetReleaseInfo

SpecFetch == Init /\ [][FetchNext]_vars

----------------------------------------------------------------------------
(* The rendering harness: one call of _render_template on displayed lists *)

DisplayedOpen(days) ==
    [i \in DOMAIN days |->
        [number |-> i, author |-> "alice", merged_at |-> None,
         created_at |-> Now - Days(days[i]), labels |-> <<>>, days_open |-> days[i]]]

DisplayedMerged(labels) ==
    [i \in DOMAIN labels |->
        [number |-> 100 + i, author |-> "bob", merged_at |-> Recent,
         created_at |-> None, labels |-> labels[i], days_open |-> 0]]

DisplayedHelp(n) ==
    [i \in 1..n |->
        [number |-> 200 + i, author |-> "carol", labels |-> <<"help wanted">>,
         created_at |-> Old]]

Copies(n, x) == [i \in 1..n |-> x]

\* the items the table reads, over all the ages around its thresholds, followed
\* by up to MaxExtra items it does not read
OpenDayLists ==
    {head \o Copies(x, 20) :
        head \in Seqs({5, 6, 7, 10, 13, 14, 20}, AttentionOpenScan), x \in 0..MaxExtra}

MergedLabelLists ==
    {head \o Copies(x, <<"breaking-change">>) :
        head \in Seqs({<<>>, <<"breaking-change">>, <<"bug", "major">>}, AttentionMergedScan),
        x \in 0..MaxExtra}

CallRenderTemplate ==
    /\ pc = "idle"
    /\ \E days \in OpenDayLists, labels \in MergedLabelLists,
          n \in 0..(AttentionHelpScan + MaxExtra) :
        LET open_prs == DisplayedOpen(days)
            merged_prs == DisplayedMerged(labels)
            help_wanted == DisplayedHelp(n)
        IN  Call("_render_template",
                 [open_prs |-> open_prs, merged_prs |-> merged_prs,
                  help_wanted |-> help_wanted],
                 Returned(render_template("2026-01-08", merged_prs, open_prs, help_wanted,
                                          {}, UnknownRelease, "01/22/2026", <<>>)))

RenderNext == CallRenderTemplate

SpecRender == Init /\ [][RenderNext]_vars

----------------------------------------------------------------------------
(* A run of main: AgendaGenerator(token), then generate_agenda(meeting_date) *)

\* What a repository of size k holds, as each listing call reports it; size
\* Unreachable is a repository whose lookup raises in every operation.
Unreachable == 0 - 1

Authors == <<"alice", "bob", "carol">>

AuthorOf(j) == Authors[(j % Len(Authors)) + 1]

\* closed pull requests by update time, newest first: k merged on the last k
\* days, the newest a breaking change, then one merged before the window
WorldClosed(k) ==
    [j \in 1..(k + 1) |->
        IF j <= k
        THEN [number |-> j, author |-> AuthorOf(j), merged_at |-> Now - Days(j),
              updated_at |-> Now - Days(j),
              labels |-> IF j = 1 THEN <<"breaking-change">> ELSE <<>>]
        ELSE [number |-> j, author |-> AuthorOf(j), merged_at |-> Old,
              updated_at |-> Old, labels |-> <<>>]]

\* open pull requests by creation time, newest first; a repository with a
\* single open pull request has a long-forgotten one
WorldOpen(k) ==
    [j \in 1..k |->
        [number |-> 10 + j, author |-> AuthorOf(j), labels |-> <<>>,
         created_at |-> Now - Days(IF k = 1 THEN 20 ELSE 5 * j)]]

\* open issues and pull requests with their labels
WorldLabelled(k) ==
    [j \in 1..k |->
        [number |-> 20 + j, author |-> AuthorOf(j), created_at |-> Old,
         is_pr |-> FALSE,
         labels |-> IF j = 1 THEN <<"good first issue", "help wanted">>
                    ELSE <<"help-wanted">>]]

\* all pull requests by update time, newest first
WorldPulls(k) ==
    [j \in 1..(k + 1) |->
        [number |-> j, updated_at |-> IF j <= k THEN Now - Days(j) ELSE Old]]

\* all issues by update time, newest first; the listing includes pull requests
WorldIssues(k) ==
    [j \in 1..(2 * k) |->
        [number |-> IF j % 2 = 1 THEN j ELSE 20 + j, is_pr |-> (j % 2 = 1),
         updated_at |-> Now - Days(j)]]

\* open issues by comment count
WorldDiscussed(k) ==
    [j \in 1..k |->
        [number |-> 20 + j, author |-> AuthorOf(j), created_at |-> Old,
         is_pr |-> FALSE, updated_at |-> Now - Days(j), labels |-> <<"bug">>]]

WorldReleases(k) ==
    IF k >= 1
    THEN <<[tag_name |-> "v0.29.0", html_url |-> "releases/v0.29.0", published_at |-> Recent]>>
    ELSE <<>>

Size(repo) == IF world[repo] = Unreachable THEN 0 ELSE world[repo]

\* the error point of a call on repo: its lookup raises, or nothing does
LookupErr(repo) == IF world[repo] = Unreachable THEN 0 ELSE NoErr

RepoMergedPrs(repo) == get_merged_prs(WorldClosed(Size(repo)), LookupErr(repo)).value

RepoOpenPrs(repo) ==
    get_open_prs_needing_review(WorldOpen(Size(repo)), LookupErr(repo)).value

RepoHelpWanted(repo) ==
    get_help_wanted_issues(WorldLabelled(Size(repo)),
                           IF world[repo] = Unreachable THEN [label |-> 0, at |-> 0]
                           ELSE NoFail).value

RepoContributors(repo) ==
    get_recent_contributors(WorldClosed(Size(repo)), LookupErr(repo)).value

RepoActivityScore(repo) ==
    get_repo_activity_score(WorldPulls(Size(repo)), WorldIssues(Size(repo)),
                            IF world[repo] = Unreachable THEN [list |-> 1, at |-> 0]
                            ELSE NoScanFail).value

RepoTopIssues(repo) ==
    get_top_issues_for_discussion(WorldDiscussed(Size(repo)), DiscussionLimit,
                                  LookupErr(repo)).value

RepoReleaseInfo(repo) == get_release_info(WorldReleases(Size(repo)), LookupErr(repo)).value

MeetingDates == {"2026-01-08", "2026-12-25", "TBD"}

RunInit ==
    /\ pc = "fetch_merged"
    /\ lookback_date = Now - Days(LookbackDays)
    /\ op = "none"
    /\ arg = <<>>
    /\ result = <<>>
    /\ caught = FALSE
    /\ world \in [Range(Repos) -> Unreachable..MaxWorld]
    /\ meeting_date \in MeetingDates
    /\ repo_i = 1
    /\ all_merged_prs = <<>>
    /\ all_open_prs = <<>>
    /\ all_help_wanted = <<>>
    /\ all_contributors = {}
    /\ repo_activity = <<>>
    /\ top_repos = <<>>
    /\ top_issues_by_repo = <<>>
    /\ release_info = <<>>
    /\ next_meeting = <<>>
    /\ agenda = <<>>
    /\ calls = <<>>

Logged(name, repo) == calls' = Append(calls, [op |-> name, repo |-> repo])

FetchMerged ==
    /\ pc = "fetch_merged"
    /\ all_merged_prs' = all_merged_prs \o RepoMergedPrs(Repos[repo_i])
    /\ Logged("get_merged_prs", Repos[repo_i])
    /\ pc' = "fetch_open"
    /\ UNCHANGED <<lookback_date, harnessVars, world, meeting_date, repo_i, all_open_prs,
                   all_help_wanted, all_contributors, repo_activity, top_repos,
                   top_issues_by_repo, release_info, next_meeting, agenda>>

FetchOpen ==
    /\ pc = "fetch_open"
    /\ all_open_prs' = all_open_prs \o RepoOpenPrs(Repos[repo_i])
    /\ Logged("get_open_prs_needing_review", Repos[repo_i])
    /\ pc' = "fetch_help"
    /\ UNCHANGED <<lookback_date, harnessVars, world, meeting_date, repo_i, all_merged_prs,
                   all_help_wanted, all_contributors, repo_activity, top_repos,
                   top_issues_by_repo, release_info, next_meeting, agenda>>

FetchHelp ==
    /\ pc = "fetch_help"
    /\ all_help_wanted' = all_help_wanted \o RepoHelpWanted(Repos[repo_i])
    /\ Logged("get_help_wanted_issues", Repos[repo_i])
    /\ pc' = "fetch_contributors"
    /\ UNCHANGED <<lookback_date, harnessVars, world, meeting_date, repo_i, all_merged_prs,
                   all_open_prs, all_contributors, repo_activity, top_repos,
                   top_issues_by_repo, release_info, next_meeting, agenda>>

FetchContributors ==
    /\ pc = "fetch_contributors"
    /\ all_contributors' = all_contributors \cup RepoContributors(Repos[repo_i])
    /\ Logged("get_recent_contributors", Repos[repo_i])
    /\ pc' = "fetch_activity"
    /\ UNCHANGED <<lookback_date, harnessVars, world, meeting_date, repo_i, all_merged_prs,
                   all_open_prs, all_help_wanted, repo_activity, top_repos,
                   top_issues_by_repo, release_info, next_meeting, agenda>>

\* the last call of the loop body; the loop goes on to the next repository
FetchActivity ==
    /\ pc = "fetch_activity"
    /\ repo_activity' = Append(repo_activity,
                               [repo |-> Repos[repo_i],
                                score |-> RepoActivityScore(Repos[repo_i])])
    /\ Logged("get_repo_activity_score", Repos[repo_i])
    /\ IF repo_i < Len(Repos)
       THEN repo_i' = repo_i + 1 /\ pc' = "fetch_merged"
       ELSE repo_i' = 1 /\ pc' = "sort_and_limit"
    /\ UNCHANGED <<lookback_date, harnessVars, world, meeting_date, all_merged_prs,
                   all_open_prs, all_help_wanted, all_contributors, top_repos,
                   top_issues_by_repo, release_info, next_meeting, agenda>>

SortAndLimit ==
    /\ pc = "sort_and_limit"
    /\ all_merged_prs' = Take(SortByMergedAt(all_merged_prs), MaxPrsToShow)
    /\ all_open_prs' = LimitOpenPrs(all_open_prs)
    /\ all_help_wanted' = Take(all_help_wanted, MaxIssuesToShow)
    /\ top_repos' = TopRepos(repo_activity)
    /\ pc' = IF TopRepos(repo_activity) # <<>> THEN "fetch_discussion" ELSE "fetch_release"
    /\ UNCHANGED <<lookback_date, harnessVars, world, meeting_date, repo_i,
                   all_contributors, repo_activity, top_issues_by_repo, release_info,
                   next_meeting, agenda, calls>>

FetchDiscussion ==
    /\ pc = "fetch_discussion"
    /\ top_issues_by_repo' = Append(top_issues_by_repo,
                                    [repo |-> top_repos[repo_i],
                                     issues |-> RepoTopIssues(top_repos[repo_i])])
    /\ Logged("get_top_issues_for_discussion", top_repos[repo_i])
    /\ IF repo_i < Len(top_repos)
       THEN repo_i' = repo_i + 1 /\ pc' = "fetch_discussion"
       ELSE repo_i' = repo_i /\ pc' = "fetch_release"
    /\ UNCHANGED <<lookback_date, harnessVars, world, meeting_date, all_merged_prs,
                   all_open_prs, all_help_wanted, all_contributors, repo_activity,
                   top_repos, release_info, next_meeting, agenda>>

FetchRelease ==
    /\ pc = "fetch_release"
    /\ release_info' = RepoReleaseInfo(Repos[1])
    /\ Logged("get_release_info", Repos[1])
    /\ pc' = "parse_meeting_date"
    /\ UNCHANGED <<lookback_date, harnessVars, world, meeting_date, repo_i, all_merged_prs,
                   all_open_prs, all_help_wanted, all_contributors, repo_activity,
                   top_repos, top_issues_by_repo, next_meeting, agenda>>

\* date_parser.parse raises on a text it cannot read; nothing catches it
ParseMeetingDate ==
    /\ pc = "parse_meeting_date"
    /\ IF ParseDate(meeting_date) = ParseError
       THEN pc' = "aborted" /\ UNCHANGED next_meeting
       ELSE /\ pc' = "render"
            /\ next_meeting' = FormatMeeting(AddDays(ParseDate(meeting_date), NextMeetingDays))
    /\ UNCHANGED <<lookback_date, harnessVars, world, meeting_date, repo_i, all_merged_prs,
                   all_open_prs, all_help_wanted, all_contributors, repo_activity,
                   top_repos, top_issues_by_repo, release_info, agenda, calls>>

Render ==
    /\ pc = "render"
    /\ agenda' = render_template(meeting_date, all_merged_prs, all_open_prs,
                                 all_help_wanted, all_contributors, release_info,
                                 next_meeting, top_issues_by_repo)
    /\ pc' = "done"
    /\ UNCHANGED <<lookback_date, harnessVars, world, meeting_date, repo_i, all_merged_prs,
                   all_open_prs, all_help_wanted, all_contributors, repo_activity,
                   top_repos, top_issues_by_repo, release_info, next_meeting, calls>>

RunNext ==
    \/ FetchMerged
    \/ FetchOpen
    \/ FetchHelp
    \/ FetchContributors
    \/ FetchActivity
    \/ SortAndLimit
    \/ FetchDiscussion
    \/ FetchRelease
    \/ ParseMeetingDate
    \/ Render

SpecRun == RunInit /\ [][RunNext]_vars

----------------------------------------------------------------------------
(* Properties of the fetch operations, stated on the harness *)

Numbers(infos) == [k \in DOMAIN infos |-> infos[k].number]

\* seq lists the numbers of S once each, in increasing order
EnumeratesInOrder(seq, S) ==
    /\ Len(seq) = Cardinality(S)
    /\ Range(seq) = S
    /\ \A k \in DOMAIN seq : \A l \in DOMAIN seq : k < l => seq[k] < seq[l]

FirstOf(S, default) == IF S = {} THEN default ELSE CHOOSE x \in S : \A y \in S : x <= y

Count(seq, x) == Cardinality({k \in DOMAIN seq : seq[k] = x})

\* the response as it would be had it ended just before item n
Before(items, n) == SubSeq(items, 1, Min(Len(items), n - 1))

MergedInWindow(pr) == pr.merged_at # None /\ pr.merged_at > lookback_date

DescendingByUpdate(items) ==
    \A i \in DOMAIN items : \A j \in DOMAIN items :
        i < j => items[i].updated_at >= items[j].updated_at

\* where the scan of arg.closed ends: at the first of the first 50 items whose
\* update time predates the window or whose processing raises
MergedStop ==
    LET lim == Min(Len(arg.closed), MergedScanLimit) IN
    IF arg.errAt = 0 THEN 1
    ELSE FirstOf({i \in 1..lim : arg.closed[i].updated_at < lookback_date \/ i = arg.errAt},
                 lim + 1)

\* C5: get_merged_prs scans at most the first 50 closed pull requests in order,
\* stops at the first item whose update time predates the lookback window, and
\* returns exactly the scanned items merged strictly inside the window, in scan
\* order.  When no exception is caught and the response is in descending update
\* order these are all the in-window merges among the first 50; an in-window
\* merge placed after an item updated before the window is never returned.
C5_MergedPrs ==
    op = "get_merged_prs" =>
        LET closed == arg.closed
            lim == Min(Len(closed), MergedScanLimit)
            nums == Numbers(result)
        IN  /\ MergedStop <= MergedScanLimit + 1
            /\ EnumeratesInOrder(nums, {i \in 1..(MergedStop - 1) : MergedInWindow(closed[i])})
            /\ \A k \in DOMAIN result :
                   result[k].merged_at = closed[result[k].number].merged_at
            /\ (~caught /\ DescendingByUpdate(closed))
                   => Range(nums) = {i \in 1..lim : MergedInWindow(closed[i])}
            /\ \A j \in DOMAIN closed :
                   (\E i \in 1..(j - 1) : i <= lim /\ closed[i].updated_at < lookback_date)
                       => j \notin Range(nums)

\* an unsorted response loses an in-window merge: it lies among the first 50
\* items, after an item updated before the window, and is not returned
C5_Witness ==
    /\ op = "get_merged_prs" /\ ~caught
    /\ \E j \in DOMAIN arg.closed :
          /\ j <= MergedScanLimit
          /\ MergedInWindow(arg.closed[j])
          /\ \E i \in 1..(j - 1) : arg.closed[i].updated_at < lookback_date
          /\ j \notin Range(Numbers(result))

OpenDays(pr) == DaysBetween(Now, pr.created_at)

\* C3: get_open_prs_needing_review returns only pull requests open for at least
\* 3 whole days, also when an exception interrupts the scan; the list is sorted
\* by days-open in non-increasing order; when no exception is caught it holds
\* every such pull request among the first 30 of the response, once.
C3_OpenPrs ==
    op = "get_open_prs_needing_review" =>
        LET open == arg.open
            lim == Min(Len(open), OpenScanLimit)
            nums == Numbers(result)
        IN  /\ \A k \in DOMAIN result :
                  /\ result[k].number \in 1..lim
                  /\ result[k].days_open = OpenDays(open[result[k].number])
                  /\ result[k].days_open >= MinDaysOpen
            /\ \A k \in DOMAIN result : \A l \in DOMAIN result :
                   k < l => result[k].days_open >= result[l].days_open
            /\ \A n \in Range(nums) : Count(nums, n) = 1
            /\ ~caught => Range(nums) = {i \in 1..lim : OpenDays(open[i]) >= MinDaysOpen}

\* a full page: the 30th pull request is the oldest and moves to the front,
\* and a pull request open long enough but beyond the 30th is not returned
C3_Witness ==
    /\ op = "get_open_prs_needing_review" /\ ~caught
    /\ Len(arg.open) > OpenScanLimit
    /\ OpenDays(arg.open[Len(arg.open)]) >= MinDaysOpen
    /\ Len(result) = OpenScanLimit
    /\ result[1].number = OpenScanLimit
    /\ result[1].days_open > result[2].days_open

\* the first of the first 30 pull requests that is not updated after the anchor
ActivityPullStop ==
    LET lim == Min(Len(arg.pulls), ActivityPullLimit) IN
    FirstOf({i \in 1..lim : arg.pulls[i].updated_at <= lookback_date}, lim + 1)

\* the first of the first 30 issues that is updated before the anchor
ActivityIssueStop ==
    LET lim == Min(Len(arg.issues), ActivityIssueLimit) IN
    FirstOf({i \in 1..lim : arg.issues[i].updated_at < lookback_date}, lim + 1)

\* the first of the first 30 pull requests that is updated before the anchor
ActivityPullStopStrict ==
    LET lim == Min(Len(arg.pulls), ActivityPullLimit) IN
    FirstOf({i \in 1..lim : arg.pulls[i].updated_at < lookback_date}, lim + 1)

CountedPulls(stop) ==
    Cardinality({i \in 1..(stop - 1) : arg.pulls[i].updated_at > lookback_date})

CountedIssues(stop) ==
    Cardinality({i \in 1..(stop - 1) :
                    ~arg.issues[i].is_pr /\ arg.issues[i].updated_at > lookback_date})

\* C4 as stated: both scans stop at the first item whose update time precedes
\* the anchor, and the score counts the in-window pull requests and non-PR
\* issues before that item.
C4_AsStated ==
    (op = "get_repo_activity_score" /\ ~caught) =>
        result = CountedPulls(ActivityPullStopStrict) + CountedIssues(ActivityIssueStop)

\* C4 (amended): the score is an integer >= 0.  The pull-request scan stops at
\* the first of the first 30 items not updated after the anchor (before it or
\* exactly at it); the issue scan stops at the first of the first 30 items
\* updated before the anchor.  When no exception is caught the score is the
\* number of pull requests before the first stop plus the number of non-PR
\* issues updated after the anchor before the second; a caught exception
\* leaves a score that is at most that.
C4_ActivityScore ==
    op = "get_repo_activity_score" =>
        /\ result \in Nat
        /\ result <= CountedPulls(ActivityPullStop) + CountedIssues(ActivityIssueStop)
        /\ ~caught => result = (ActivityPullStop - 1) + CountedIssues(ActivityIssueStop)
        /\ ~caught => result = CountedPulls(ActivityPullStop) + CountedIssues(ActivityIssueStop)

\* a pull request exactly at the anchor ends the scan before a later in-window
\* one, while the issue scan passes an out-of-order item at the anchor
C4_Witness ==
    /\ op = "get_repo_activity_score" /\ ~caught
    /\ ActivityPullStop < ActivityPullStopStrict
    /\ \E i \in 1..(ActivityPullStopStrict - 1) :
          i > ActivityPullStop /\ arg.pulls[i].updated_at > lookback_date
    /\ result > 0

AliasCount(item) ==
    Cardinality({l \in DOMAIN LabelAliases : Contains(item.labels, LabelAliases[l])})

\* the open items carrying alias l, in response order
HelpResponseOf(l) ==
    LET Labelled(it) == Contains(it.labels, LabelAliases[l])
    IN  SelectSeq(arg.items, Labelled)

NonPrNumbers(items) ==
    LET IsIssue(it) == ~it.is_pr IN Numbers(SelectSeq(items, IsIssue))

\* the numbers of the non-PR items carrying alias l, in response order
HelpNumbersOf(l) == NonPrNumbers(HelpResponseOf(l))

\* C6: get_help_wanted_issues never returns an item flagged as a pull request,
\* whatever its labels; when no exception is caught the result is, for the four
\* aliases in their fixed order, the non-PR issues carrying the alias, so an
\* issue carrying k aliases appears exactly k times; a caught exception only
\* removes entries.
C6_HelpWanted ==
    op = "get_help_wanted_issues" =>
        LET nums == Numbers(result) IN
        /\ \A k \in DOMAIN result : ~arg.items[result[k].number].is_pr
        /\ \A i \in DOMAIN arg.items : Count(nums, i) <= AliasCount(arg.items[i])
        /\ ~caught =>
              /\ nums = HelpNumbersOf(1) \o HelpNumbersOf(2) \o HelpNumbersOf(3) \o HelpNumbersOf(4)
              /\ \A i \in DOMAIN arg.items :
                    ~arg.items[i].is_pr => Count(nums, i) = AliasCount(arg.items[i])

\* an issue with several aliases is returned once per alias while a labelled
\* pull request of the same repository is left out
C6_Witness ==
    /\ op = "get_help_wanted_issues" /\ ~caught
    /\ \E i \in DOMAIN arg.items :
          /\ ~arg.items[i].is_pr
          /\ AliasCount(arg.items[i]) >= 2
          /\ Count(Numbers(result), i) = AliasCount(arg.items[i])
    /\ \E i \in DOMAIN arg.items : arg.items[i].is_pr /\ AliasCount(arg.items[i]) >= 1

EmptyResult ==
    CASE op = "get_recent_contributors" -> {}
      [] op = "get_repo_activity_score" -> 0
      [] op = "get_release_info" -> UnknownRelease
      [] OTHER -> <<>>

\* C1 as stated: an operation that catches an exception returns the empty
\* result, never one built from the items processed before the exception.
C1_AsStated ==
    (pc = "returned" /\ caught) => result = EmptyResult

\* what the operation returns on the part of its input that precedes the error
ResultBeforeError ==
    CASE op = "get_merged_prs" ->
            get_merged_prs(Before(arg.closed, arg.errAt), NoErr).value
      [] op = "get_open_prs_needing_review" ->
            get_open_prs_needing_review(Before(arg.open, arg.errAt), NoErr).value
      [] op = "get_recent_contributors" ->
            get_recent_contributors(Before(arg.closed, arg.errAt), NoErr).value
      [] op = "get_top_issues_for_discussion" ->
            get_top_issues_for_discussion(Before(arg.open_issues, arg.errAt),
                                          DiscussionLimit, NoErr).value
      [] op = "get_repo_activity_score" ->
            IF arg.fail.list = 1
            THEN ActivityPullScan(Before(arg.pulls, arg.fail.at), 1, NoErr, 0).value
            ELSE get_repo_activity_score(arg.pulls, Before(arg.issues, arg.fail.at),
                                         [list |-> NoErr, at |-> NoErr]).value
      [] op = "get_help_wanted_issues" ->
            IF arg.fail.label = 0 THEN <<>>
            ELSE LET Part(l) == IF l = arg.fail.label
                                THEN NonPrNumbers(Before(HelpResponseOf(l), arg.fail.at))
                                ELSE HelpNumbersOf(l)
                 IN  Part(1) \o Part(2) \o Part(3) \o Part(4)
      [] op = "get_release_info" -> UnknownRelease

\* C1 (amended): no fetch operation propagates an exception.  get_release_info
\* then returns the sentinel record; every other operation returns what it had
\* accumulated from the items processed before the exception: the result for
\* the input cut just before the failing item, where a failing label query of
\* get_help_wanted_issues loses only the rest of that label's items and a
\* failing issue scan of get_repo_activity_score keeps the pull-request count.
C1_FaultTolerance ==
    /\ pc \in {"idle", "returned"}
    /\ (pc = "returned" /\ caught) =>
          IF op = "get_help_wanted_issues"
          THEN Numbers(result) = ResultBeforeError
          ELSE result = ResultBeforeError

\* an exception at a later item leaves the earlier in-window merges in the list
C1_Witness ==
    /\ pc = "returned" /\ caught
    /\ op = "get_merged_prs"
    /\ arg.errAt > 1
    /\ result # <<>>

----------------------------------------------------------------------------
(* Properties of the attention table, stated on the rendering harness *)

RowsOfKind(table, kind) ==
    LET Is(row) == row.kind = kind IN SelectSeq(table, Is)

DaysOpenOf(prs) == [k \in DOMAIN prs |-> prs[k].days_open]

\* C7: the attention table has at most 5 rows; a stale-PR row stands for an
\* open pull request with days-open >= 7 and is red from 14 days on, orange
\* below; open pull requests of 5, 10 and 20 days give exactly the 10-day row
\* (orange) and the 20-day row (red); with no merged, open or help-wanted item
\* the table is the single all-clear row.
C7_AttentionTable ==
    op = "_render_template" =>
        LET table == result.attention_table
            stale == RowsOfKind(table, "stale_pr")
        IN  /\ Len(table) \in 1..AttentionCap
            /\ \A k \in DOMAIN stale :
                  \E i \in DOMAIN arg.open_prs :
                     /\ arg.open_prs[i].number = stale[k].number
                     /\ arg.open_prs[i].days_open = stale[k].days_open
                     /\ stale[k].days_open >= StaleDays
                     /\ (stale[k].urgency = "red") = (stale[k].days_open >= CriticalDays)
                     /\ (stale[k].urgency = "orange") = (stale[k].days_open < CriticalDays)
            /\ DaysOpenOf(Take(arg.open_prs, AttentionOpenScan)) = <<5, 10, 20>>
                  => /\ DaysOpenOf(stale) = <<10, 20>>
                     /\ stale[1].urgency = "orange" /\ stale[2].urgency = "red"
            /\ (arg.open_prs = <<>> /\ arg.merged_prs = <<>> /\ arg.help_wanted = <<>>)
                  => table = <<AllClearRow>>
            /\ \A k \in DOMAIN table : table[k].kind = "all_clear" => Len(table) = 1

\* the three pull requests of the example, with other rows filling the table
C7_Witness ==
    /\ op = "_render_template"
    /\ DaysOpenOf(arg.open_prs) = <<5, 10, 20>>
    /\ DaysOpenOf(RowsOfKind(result.attention_table, "stale_pr")) = <<10, 20>>
    /\ Len(result.attention_table) = AttentionCap

KindRank(row) ==
    CASE row.kind = "stale_pr" -> 1
      [] row.kind = "breaking_change" -> 2
      [] row.kind = "help_wanted" -> 3
      [] OTHER -> 4

\* C10: the table holds, in this order, a row for each of the first 3 displayed
\* open pull requests that is stale, a row for each of the first 2 displayed
\* merged pull requests labelled "breaking-change" or "major", and rows for the
\* first 2 displayed help-wanted issues as far as 5 rows allow: an open pull
\* request at position 4 or later has no row, there are at most 2 help-wanted
\* rows, and none when 3 stale and 2 breaking-change rows are present.
C10_AttentionSources ==
    op = "_render_template" =>
        LET table == result.attention_table
            stale == RowsOfKind(table, "stale_pr")
            breaking == RowsOfKind(table, "breaking_change")
            help == RowsOfKind(table, "help_wanted")
            open_prs == arg.open_prs
            merged_prs == arg.merged_prs
            room == AttentionCap - Len(stale) - Len(breaking)
        IN  /\ \A k \in DOMAIN table : \A l \in DOMAIN table :
                   k < l => KindRank(table[k]) <= KindRank(table[l])
            /\ EnumeratesInOrder(Numbers(stale),
                   {open_prs[i].number : i \in
                       {j \in DOMAIN open_prs :
                           j <= AttentionOpenScan /\ open_prs[j].days_open >= StaleDays}})
            /\ EnumeratesInOrder(Numbers(breaking),
                   {merged_prs[i].number : i \in
                       {j \in DOMAIN merged_prs :
                           j <= AttentionMergedScan /\ IsBreaking(merged_prs[j])}})
            /\ Numbers(help) = Take(Numbers(Take(arg.help_wanted, AttentionHelpScan)), room)
            /\ Len(help) <= AttentionHelpScan
            /\ \A i \in DOMAIN open_prs :
                   i > AttentionOpenScan => open_prs[i].number \notin Range(Numbers(stale))
            /\ (Len(stale) = AttentionOpenScan /\ Len(breaking) = AttentionMergedScan)
                   => help = <<>>

\* three stale and two breaking-change rows fill the table: the help-wanted
\* issues and the stale fourth open pull request get no row
C10_Witness ==
    /\ op = "_render_template"
    /\ Len(RowsOfKind(result.attention_table, "stale_pr")) = AttentionOpenScan
    /\ Len(RowsOfKind(result.attention_table, "breaking_change")) = AttentionMergedScan
    /\ arg.help_wanted # <<>>
    /\ RowsOfKind(result.attention_table, "help_wanted") = <<>>
    /\ Len(arg.open_prs) > AttentionOpenScan
    /\ arg.open_prs[AttentionOpenScan + 1].days_open >= StaleDays

----------------------------------------------------------------------------
(* Properties of a run *)

PerRepoOps ==
    {"get_merged_prs", "get_open_prs_needing_review", "get_help_wanted_issues",
     "get_recent_contributors", "get_repo_activity_score"}

\* C2: a run whose meeting date cannot be parsed aborts before any fetch
\* operation has been called on any repository.
C2_AbortBeforeFetch ==
    pc = "aborted" => calls = <<>>

ScoreOf(repo) ==
    LET Of(entry) == entry.repo = repo IN SelectSeq(repo_activity, Of)[1].score

ConfigIndex(repo) == CHOOSE i \in DOMAIN Repos : Repos[i] = repo

\* how many repositories come before repo in the ranking: those with a higher
\* score, and those with the same score configured earlier
RankOf(repo) ==
    Cardinality({q \in Range(Repos) :
                    \/ ScoreOf(q) > ScoreOf(repo)
                    \/ ScoreOf(q) = ScoreOf(repo) /\ ConfigIndex(q) < ConfigIndex(repo)})

Lookups ==
    LET IsLookup(c) == c.op = "get_top_issues_for_discussion"
        made == SelectSeq(calls, IsLookup)
    IN  [k \in DOMAIN made |-> made[k].repo]

LookupsOver == pc \in {"fetch_release", "parse_meeting_date", "render", "done", "aborted"}

\* C8: a discussion-topic lookup is made only after the five per-repository
\* fetches of every configured repository; the lookups are made for the
\* repositories ranked among the first 3 by activity score (equal scores in
\* configuration order) that have a score > 0, once each, in descending score
\* order; once the lookups are over, exactly those repositories were looked up.
C8_DiscussionLookups ==
    /\ \A i \in DOMAIN calls :
          calls[i].op = "get_top_issues_for_discussion" =>
              /\ \A repo \in Range(Repos) : \A name \in PerRepoOps :
                    \E j \in 1..(i - 1) : calls[j] = [op |-> name, repo |-> repo]
              /\ \A j \in DOMAIN calls : j > i => calls[j].op \notin PerRepoOps
    /\ \A k \in DOMAIN Lookups :
          /\ ScoreOf(Lookups[k]) > 0
          /\ RankOf(Lookups[k]) < TopRepoCount
          /\ \A l \in DOMAIN Lookups :
                k < l => /\ Lookups[k] # Lookups[l]
                         /\ ScoreOf(Lookups[k]) >= ScoreOf(Lookups[l])
    /\ LookupsOver =>
          Range(Lookups) = {repo \in Range(Repos) :
                               ScoreOf(repo) > 0 /\ RankOf(repo) < TopRepoCount}

\* a finished run with three lookups, made out of configuration order, in
\* which an active repository ranked fourth and a repository without activity
\* were not looked up
C8_Witness ==
    /\ pc = "done"
    /\ Len(Lookups) = TopRepoCount
    /\ \E repo \in Range(Repos) :
          ScoreOf(repo) > 0 /\ RankOf(repo) >= TopRepoCount /\ repo \notin Range(Lookups)
    /\ \E repo \in Range(Repos) : ScoreOf(repo) = 0 /\ repo \notin Range(Lookups)
    /\ \E k \in DOMAIN Lookups :
          k > 1 /\ ConfigIndex(Lookups[k]) < ConfigIndex(Lookups[k - 1])

\* the pooled list, before the cut: each repository's own sorted list, in
\* configuration order
PooledOpenPrs ==
    RepoOpenPrs(Repos[1]) \o RepoOpenPrs(Repos[2]) \o RepoOpenPrs(Repos[3])
    \o RepoOpenPrs(Repos[4]) \o RepoOpenPrs(Repos[5])

Limited == pc \in {"fetch_discussion", "fetch_release", "parse_meeting_date", "render",
                   "done", "aborted"}

\* C9: the displayed open pull requests are the first 8 of the concatenation,
\* in configuration order of the repositories, of each repository's own list
\* sorted by days-open, with no sort across repositories before the cut; the
\* rendered count is the length of that list.
C9_OpenPrsConcatenated ==
    /\ Limited =>
          /\ all_open_prs = Take(PooledOpenPrs, MaxPrsToShow)
          /\ Len(all_open_prs) <= MaxPrsToShow
    /\ pc = "done" => agenda.review_count = Len(Take(PooledOpenPrs, MaxPrsToShow))

\* a finished run whose displayed list is out of order and leaves out a pull
\* request of a later repository that is older than every displayed one
C9_Witness ==
    /\ pc = "done"
    /\ Len(all_open_prs) = MaxPrsToShow
    /\ \E k \in DOMAIN all_open_prs :
          k > 1 /\ all_open_prs[k].days_open > all_open_prs[k - 1].days_open
    /\ \E j \in DOMAIN PooledOpenPrs :
          /\ j > MaxPrsToShow
          /\ \A k \in DOMAIN all_open_prs :
                PooledOpenPrs[j].days_open > all_open_prs[k].days_open

====
